---- MODULE Spec2Model ----
(***************************************************************************)
(* A model of apps/extension/scripts/create-logos.py: the ClawFi icon      *)
(* generator.  main() makes two output directories, renders the icon at    *)
(* 16, 48 and 128 pixels plus a 256-pixel logo, and saves every rendering  *)
(* twice (public tree, dist tree).  create_icon() is the pipeline          *)
(* gradient -> rounded mask (putalpha) -> crab -> highlight composite.     *)
(*                                                                         *)
(* An image is followed at a set of pixel coordinates `pts`: every         *)
(* operation of the pipeline is per-pixel, so the value of a pixel after   *)
(* each step is computed for that pixel alone, with the script's and the   *)
(* compositor's integer arithmetic; a drawn shape fills the pixels that    *)
(* lie in the ideal shape.                                                 *)
(***************************************************************************)
EXTENDS Integers, Sequences, FiniteSets, TLC

VARIABLES
    pc,      \* position of the script
    run,     \* 1: first run of main(), 2: a second run on the tree left by the first
    job,     \* index of the image being produced: 1..3 the loop over sizes, 4 the logo
    size,    \* argument of the running create_icon call
    pts,     \* pixel coordinates at which the image in memory is followed
    img,     \* the image in memory (create_icon's img / main's icon, logo)
    dirs,    \* directories that exist below ext_dir
    files,   \* files below ext_dir: path -> content
    out,     \* lines printed to stdout by this run
    log,     \* history: calls made by this run, in order
    err,     \* exception that ended the run, "none" while there is none
    start,   \* history: the tree when this run began
    drawn,   \* history: the shapes the running create_icon call has drawn, in order
    gsize, gc1, gc2, grows   \* a create_gradient call on its own: arguments and rows painted

vars == <<pc, run, job, size, pts, img, dirs, files, out, log, err, start, drawn,
          gsize, gc1, gc2, grows>>

mainVars == <<run, job, dirs, files, out, err, start>>
gradVars == <<gsize, gc1, gc2, grows>>

----------------------------------------------------------------------------
(* Bounds of the model *)

\* create_icon is also exercised at every size 1..MaxSize
MaxSize == 32
\* create_gradient on its own is exercised at every size 1..MaxGradSize
MaxGradSize == 8

----------------------------------------------------------------------------
(* Constants of the script *)

BLUE_LIGHT == <<10, 132, 255>>
BLUE_DARK == <<0, 90, 200>>
WHITE == <<255, 255, 255>>
BLACK == <<0, 0, 0>>

\* the list with its first two sizes exchanged
sizesSwapped == <<48, 16, 128>>

sizes == <<16, 48, 128>>
LogoSize == 256
RefSize == 128
HighlightAlpha == 80

SupportedSizes == {sizes[i] : i \in 1..Len(sizes)} \cup {LogoSize}

----------------------------------------------------------------------------
(* Arithmetic *)

Abs(n) == IF n < 0 THEN -n ELSE n
Max(a, b) == IF a >= b THEN a ELSE b
Sq(n) == n * n

(* The script computes in binary64 floating point and truncates with      *)
(* int().  The exact value is a rational with a denominator of at most     *)
(* the image size, so rounding error can change the truncated result only  *)
(* when the exact value is an integer and the double lands just below it.  *)
(* GradientShort and HighlightShort list the inputs at which that happens  *)
(* (evaluating the script's own expressions, lines 22-25 and 135, in       *)
(* doubles): <<size, y, c1, c2>> for the channels of Palette at sizes up   *)
(* to 9 and of BLUE_LIGHT -> BLUE_DARK at sizes up to 33 and 48, 128, 256; *)
(* <<size, y>> for the highlight at the same sizes.                        *)
GradientShort ==
    { <<5, 4, 10, 0>>, <<5, 4, 90, 0>>, <<5, 4, 200, 0>>, <<5, 4, 255, 0>>,
      <<5, 4, 255, 10>>, <<5, 4, 255, 90>>, <<6, 5, 90, 0>>, <<6, 5, 132, 0>>,
      <<7, 2, 10, 255>>, <<7, 3, 10, 255>>, <<7, 3, 255, 10>>, <<7, 3, 255, 255>>,
      <<7, 4, 10, 255>>, <<7, 5, 255, 10>>, <<7, 6, 10, 255>>,
      <<10, 8, 10, 0>>, <<10, 9, 10, 0>>, <<15, 12, 10, 0>>, <<20, 16, 10, 0>>,
      <<20, 18, 10, 0>>, <<25, 20, 10, 0>>, <<30, 24, 10, 0>>, <<30, 27, 10, 0>> }

HighlightShort ==
    { <<15, 4>>, <<16, 4>>, <<17, 4>>, <<30, 8>>, <<30, 9>>, <<31, 8>>, <<31, 9>>,
      <<32, 8>>, <<32, 9>>, <<256, 68>> }

\* int(c1 * (1 - ratio) + c2 * ratio) with ratio = y / n
Lerp(n, y, c1, c2) ==
    ((c1 * (n - y) + c2 * y) \div n) - (IF <<n, y, c1, c2>> \in GradientShort THEN 1 ELSE 0)

\* a scale that rounds to the nearest integer instead of truncating
ScRounded(k, n) == (2 * k * n + RefSize) \div (2 * RefSize)

\* int(k * s) with s = size / 128: size / 128 and k * s are exact doubles
Sc(k, n) == (k * n) \div RefSize

----------------------------------------------------------------------------
(* create_gradient *)

\* the colour painted on row y (line 26's fill)
GradientRow(n, color1, color2, y) ==
    << Lerp(n, y, color1[1], color2[1]),
       Lerp(n, y, color1[2], color2[2]),
       Lerp(n, y, color1[3], color2[3]),
       255 >>

\* Image.new('RGBA', (size, size)): every pixel (0, 0, 0, 0)
NewImage(n, at, fill) == [w |-> n, h |-> n, px |-> [p \in at |-> fill]]

\* the image after the loop over range(size): row y is one line from (0, y) to (size, y)
create_gradient(n, color1, color2, at) ==
    [ NewImage(n, at, <<0, 0, 0, 0>>) EXCEPT
        !.px = [p \in at |-> IF p[2] \in 0..(n - 1)
                              THEN GradientRow(n, color1, color2, p[2])
                              ELSE @[p]] ]

----------------------------------------------------------------------------
(* Drawing primitives of the imaging library, as the set of pixels each    *)
(* fills: a pixel is filled when it lies in the ideal shape.               *)

Ellipse(box) == [kind |-> "ellipse", box |-> box]
Rectangle(box) == [kind |-> "rectangle", box |-> box]
Polygon(a, b, c) == [kind |-> "polygon", a |-> a, b |-> b, c |-> c]
Line(a, b, width) == [kind |-> "line", a |-> a, b |-> b, width |-> width]
RoundedRectangle(box, radius) == [kind |-> "rounded_rectangle", box |-> box, radius |-> radius]

InBox(box, p) == box[1] <= p[1] /\ p[1] <= box[3] /\ box[2] <= p[2] /\ p[2] <= box[4]

Cross(a, b, p) == (b[1] - a[1]) * (p[2] - a[2]) - (b[2] - a[2]) * (p[1] - a[1])
Dot(a, b, p) == (b[1] - a[1]) * (p[1] - a[1]) + (b[2] - a[2]) * (p[2] - a[2])
Min3(a, b, c) == IF a <= b /\ a <= c THEN a ELSE IF b <= c THEN b ELSE c
Max3(a, b, c) == IF a >= b /\ a >= c THEN a ELSE IF b >= c THEN b ELSE c

InEllipse(box, p) ==
    LET bw == box[3] - box[1]
        bh == box[4] - box[2]
    IN  /\ InBox(box, p)
        /\ Sq(2 * p[1] - box[1] - box[3]) * Sq(bh) + Sq(2 * p[2] - box[2] - box[4]) * Sq(bw)
              <= Sq(bw) * Sq(bh)

InPolygon(a, b, c, p) ==
    LET d1 == Cross(a, b, p)
        d2 == Cross(b, c, p)
        d3 == Cross(c, a, p)
    IN  /\ InBox(<<Min3(a[1], b[1], c[1]), Min3(a[2], b[2], c[2]),
                   Max3(a[1], b[1], c[1]), Max3(a[2], b[2], c[2])>>, p)
        /\ ~ ((d1 < 0 \/ d2 < 0 \/ d3 < 0) /\ (d1 > 0 \/ d2 > 0 \/ d3 > 0))

InLine(a, b, width, p) ==
    LET len2 == Dot(a, b, b)
    IN  IF len2 = 0
        THEN p = a
        ELSE /\ 0 <= Dot(a, b, p)
             /\ Dot(a, b, p) <= len2
             /\ 4 * Sq(Cross(a, b, p)) <= Sq(width) * len2

\* the corners are quarter circles of diameter 2 * radius set into the box
InRoundedRectangle(box, radius, p) ==
    LET ccx == IF p[1] < box[1] + radius THEN box[1] + radius
               ELSE IF p[1] > box[3] - radius THEN box[3] - radius ELSE p[1]
        ccy == IF p[2] < box[2] + radius THEN box[2] + radius
               ELSE IF p[2] > box[4] - radius THEN box[4] - radius ELSE p[2]
    IN  /\ InBox(box, p)
        /\ (ccx # p[1] /\ ccy # p[2]) => Sq(p[1] - ccx) + Sq(p[2] - ccy) <= Sq(radius)

Covers(shape, p) ==
    CASE shape.kind = "ellipse" -> InEllipse(shape.box, p)
      [] shape.kind = "rectangle" -> InBox(shape.box, p)
      [] shape.kind = "polygon" -> InPolygon(shape.a, shape.b, shape.c, p)
      [] shape.kind = "line" -> InLine(shape.a, shape.b, shape.width, p)
      [] shape.kind = "rounded_rectangle" -> InRoundedRectangle(shape.box, shape.radius, p)

\* draw.<shape>(..., fill=ink): the pixels of the shape are replaced by the ink
Draw(image, shape, ink) ==
    [image EXCEPT !.px = [p \in DOMAIN image.px |-> IF Covers(shape, p) THEN ink ELSE @[p]]]

RECURSIVE DrawAll(_, _, _)
DrawAll(image, shapes, ink) ==
    IF shapes = <<>> THEN image
    ELSE DrawAll(Draw(image, Head(shapes), ink), Tail(shapes), ink)

----------------------------------------------------------------------------
(* draw_crab *)

\* the leg pair drawn by iteration i of the loop over range(3)
Legs(n, i) ==
    LET cx == n \div 2
        cy == n \div 2
        leg_start_y == cy + Sc(10, n)
        leg_spacing == Sc(10, n)
        leg_len == Sc(20, n)
        leg_w == Sc(4, n)
        y == leg_start_y + i * leg_spacing
    IN  << Line(<<cx - Sc(35, n), y>>, <<cx - Sc(35, n) - leg_len, y + leg_len \div 2>>,
                Max(1, leg_w)),
           Line(<<cx + Sc(35, n), y>>, <<cx + Sc(35, n) + leg_len, y + leg_len \div 2>>,
                Max(1, leg_w)) >>

\* the draw calls of draw_crab(draw, size, color), in order
CrabShapes(n) ==
    LET cx == n \div 2
        cy == n \div 2
        body_w == Sc(40, n)
        body_h == Sc(28, n)
        eye_y == cy - Sc(15, n)
        eye_spacing == Sc(18, n)
        eye_r == Sc(6, n)
        stalk_w == Sc(3, n)
        claw_y == cy - Sc(5, n)
        claw_w == Sc(20, n)
        claw_h == Sc(15, n)
        claw_offset == Sc(45, n)
    IN  << Ellipse(<<cx - body_w, cy - body_h + Sc(5, n), cx + body_w, cy + body_h + Sc(5, n)>>),
           Rectangle(<<cx - eye_spacing - stalk_w \div 2, eye_y,
                       cx - eye_spacing + stalk_w \div 2, cy - Sc(5, n)>>),
           Ellipse(<<cx - eye_spacing - eye_r, eye_y - eye_r,
                     cx - eye_spacing + eye_r, eye_y + eye_r>>),
           Rectangle(<<cx + eye_spacing - stalk_w \div 2, eye_y,
                       cx + eye_spacing + stalk_w \div 2, cy - Sc(5, n)>>),
           Ellipse(<<cx + eye_spacing - eye_r, eye_y - eye_r,
                     cx + eye_spacing + eye_r, eye_y + eye_r>>),
           Ellipse(<<cx - claw_offset - claw_w, claw_y - claw_h \div 2,
                     cx - claw_offset + claw_w \div 2, claw_y + claw_h \div 2>>),
           Polygon(<<cx - claw_offset - claw_w, claw_y - Sc(5, n)>>,
                   <<cx - claw_offset - claw_w - Sc(10, n), claw_y - Sc(10, n)>>,
                   <<cx - claw_offset - claw_w, claw_y>>),
           Polygon(<<cx - claw_offset - claw_w, claw_y + Sc(5, n)>>,
                   <<cx - claw_offset - claw_w - Sc(10, n), claw_y + Sc(10, n)>>,
                   <<cx - claw_offset - claw_w, claw_y>>),
           Ellipse(<<cx + claw_offset - claw_w \div 2, claw_y - claw_h \div 2,
                     cx + claw_offset + claw_w, claw_y + claw_h \div 2>>),
           Polygon(<<cx + claw_offset + claw_w, claw_y - Sc(5, n)>>,
                   <<cx + claw_offset + claw_w + Sc(10, n), claw_y - Sc(10, n)>>,
                   <<cx + claw_offset + claw_w, claw_y>>),
           Polygon(<<cx + claw_offset + claw_w, claw_y + Sc(5, n)>>,
                   <<cx + claw_offset + claw_w + Sc(10, n), claw_y + Sc(10, n)>>,
                   <<cx + claw_offset + claw_w, claw_y>>) >>
        \o Legs(n, 0) \o Legs(n, 1) \o Legs(n, 2)

\* an RGB fill on an RGBA image is written with alpha 255
Ink(color) == <<color[1], color[2], color[3], 255>>

draw_crab(image, n, color) == DrawAll(image, CrabShapes(n), Ink(color))

----------------------------------------------------------------------------
(* create_icon: mask, highlight, composite *)

\* mask_draw.rounded_rectangle([0, 0, size-1, size-1], radius=size // 5, fill=255)
MaskShape(n) == RoundedRectangle(<<0, 0, n - 1, n - 1>>, n \div 5)

\* the 'L' image mask, 0 where nothing was drawn
Mask(n, p) == IF Covers(MaskShape(n), p) THEN 255 ELSE 0

\* img.putalpha(mask): the alpha band is replaced by the mask
putalpha(image, n) ==
    [image EXCEPT !.px = [p \in DOMAIN image.px |-> <<@[p][1], @[p][2], @[p][3], Mask(n, p)>>]]

\* alpha = int(80 * (1 - y / (size // 3)))
HighlightRowAlpha(n, y) ==
    ((HighlightAlpha * ((n \div 3) - y)) \div (n \div 3))
        - (IF <<n, y>> \in HighlightShort THEN 1 ELSE 0)

\* the pixel of the highlight image: transparent black below the top third
Highlight(n, p) ==
    IF p[2] \in 0..((n \div 3) - 1)
    THEN <<255, 255, 255, HighlightRowAlpha(n, p[2])>>
    ELSE <<0, 0, 0, 0>>

\* the library's rounded division by 255
ShiftForDiv255(a) == ((a \div 256) + a) \div 256

\* one pixel of Image.alpha_composite(dst, src): src over dst, in the
\* library's integer arithmetic with 7 extra bits of precision
CompositePixel(dst, src) ==
    IF src[4] = 0 THEN dst
    ELSE LET blend == dst[4] * (255 - src[4])
             outa255 == src[4] * 255 + blend
             coef1 == (src[4] * 255 * 255 * 128) \div outa255
             coef2 == 255 * 128 - coef1
             Chan(i) == ShiftForDiv255(src[i] * coef1 + dst[i] * coef2 + 128 * 128) \div 128
         IN  <<Chan(1), Chan(2), Chan(3), ShiftForDiv255(outa255 + 128)>>

alpha_composite(image, n) ==
    [image EXCEPT !.px = [p \in DOMAIN image.px |-> CompositePixel(@[p], Highlight(n, p))]]

----------------------------------------------------------------------------
(* Paths, file names and printed lines.  A path is the sequence of its     *)
(* components below ext_dir, the parent of the script's directory.         *)

Digits == <<"0", "1", "2", "3", "4", "5", "6", "7", "8", "9">>

\* the decimal rendering of n in an f-string
RECURSIVE Str(_)
Str(n) == IF n < 10 THEN Digits[n + 1] ELSE Str(n \div 10) \o Digits[(n % 10) + 1]

RECURSIVE PathStr(_)
PathStr(path) ==
    IF Len(path) = 1 THEN path[1]
    ELSE PathStr(SubSeq(path, 1, Len(path) - 1)) \o "/" \o path[Len(path)]

public_icons == <<"public", "icons">>
dist_icons == <<"dist", "icons">>

\* f'icon{size}.png'
filename(n) == "icon" \o Str(n) \o ".png"

LogoName == "logo-square.png"

NumJobs == Len(sizes) + 1

\* the logo rendered at the last icon size instead of 256
JobSizeLogoAsIcon(j) == sizes[IF j <= Len(sizes) THEN j ELSE Len(sizes)]

JobSize(j) == IF j <= Len(sizes) THEN sizes[j] ELSE LogoSize
JobName(j) == IF j <= Len(sizes) THEN filename(sizes[j]) ELSE LogoName

\* os.path.join(public_icons, filename) / os.path.join(ext_dir, 'public', 'logo-square.png')
PublicPath(j) == IF j <= Len(sizes) THEN Append(public_icons, JobName(j)) ELSE <<"public", LogoName>>

\* the second save aimed at the public tree again
DistPathPublic(j) == PublicPath(j)

\* os.path.join(dist_icons, filename) / os.path.join(ext_dir, 'dist', 'logo-square.png')
DistPath(j) == IF j <= Len(sizes) THEN Append(dist_icons, JobName(j)) ELSE <<"dist", LogoName>>

\* the line without the dimensions
CreatedLineNoSize(j) == "Created " \o JobName(j)

\* f'Created {filename} ({size}x{size})' / 'Created logo-square.png (256x256)'
CreatedLine(j) ==
    IF j <= Len(sizes)
    THEN "Created " \o filename(sizes[j]) \o " (" \o Str(sizes[j]) \o "x" \o Str(sizes[j]) \o ")"
    ELSE "Created logo-square.png (256x256)"

Completion == "All icons created successfully!"

----------------------------------------------------------------------------
(* The file system below ext_dir *)

Parent(path) == SubSeq(path, 1, Len(path) - 1)
Prefixes(path) == {SubSeq(path, 1, k) : k \in 1..Len(path)}
DirExists(d, path) == path = <<>> \/ path \in d

\* os.makedirs called without exist_ok
ExistOkOff == FALSE

\* exist_ok=True in both os.makedirs calls
ExistOk == TRUE

\* os.makedirs(path, exist_ok=...) raises FileExistsError for an existing leaf
MakedirsRaises(d, path, exist_ok) == path \in d /\ ~exist_ok

\* os.makedirs creates the leaf and every missing intermediate directory
makedirs(d, path) == d \cup Prefixes(path)

NoImage == [w |-> 0, h |-> 0, px |-> <<>>]
\* what a save that fails part-way may leave at its path
Truncated == [w |-> 0, h |-> 0, px |-> <<>>]
\* a file of an earlier build found in the tree
Stale == [w |-> 1, h |-> 1, px |-> <<>>]

\* image.save(path): the file at path holds the image
Write(f, path, image) == [q \in DOMAIN f \cup {path} |-> IF q = path THEN image ELSE f[q]]

\* the pixels at which main() follows an image: corners, centre, top middle
Probes(n) ==
    { <<0, 0>>, <<n - 1, 0>>, <<0, n - 1>>, <<n - 1, n - 1>>, <<n \div 2, n \div 2>>,
      <<n \div 2, 0>> }

Event(kind, arg) == <<kind, arg>>

----------------------------------------------------------------------------
(* create_icon, step by step *)

\* the crab drawn before the mask is applied
AfterCrabFirst(step) ==
    CASE step = "gradient" -> "crab"
      [] step = "crab" -> "mask"
      [] step = "mask" -> "highlight"
      [] step = "highlight" -> "save_public"

\* the order of create_icon's statements: the step that follows each step
After(step) ==
    CASE step = "gradient" -> "mask"
      [] step = "mask" -> "crab"
      [] step = "crab" -> "highlight"
      [] step = "highlight" -> "save_public"

\* img = create_gradient(size, BLUE_LIGHT, BLUE_DARK)
Gradient ==
    /\ pc = "gradient"
    /\ img' = create_gradient(size, BLUE_LIGHT, BLUE_DARK, pts)
    /\ drawn' = <<>>
    /\ log' = Append(log, Event("create_gradient", Str(size)))
    /\ pc' = After("gradient")
    /\ UNCHANGED <<size, pts>>
    /\ UNCHANGED mainVars
    /\ UNCHANGED gradVars

\* the mask is drawn and img.putalpha(mask) applies it
PutAlpha ==
    /\ pc = "mask"
    /\ img' = putalpha(img, size)
    /\ drawn' = Append(drawn, MaskShape(size))
    /\ log' = Append(log, Event("putalpha", Str(size)))
    /\ pc' = After("mask")
    /\ UNCHANGED <<size, pts>>
    /\ UNCHANGED mainVars
    /\ UNCHANGED gradVars

\* draw_crab(draw, size, WHITE)
DrawCrab ==
    /\ pc = "crab"
    /\ img' = draw_crab(img, size, WHITE)
    /\ drawn' = drawn \o CrabShapes(size)
    /\ log' = Append(log, Event("draw_crab", Str(size)))
    /\ pc' = After("crab")
    /\ UNCHANGED <<size, pts>>
    /\ UNCHANGED mainVars
    /\ UNCHANGED gradVars

\* the highlight is painted and img = Image.alpha_composite(img, highlight); return img
Composite ==
    /\ pc = "highlight"
    /\ img' = alpha_composite(img, size)
    /\ log' = Append(log, Event("alpha_composite", Str(size)))
    /\ pc' = After("highlight")
    /\ UNCHANGED <<size, pts, drawn>>
    /\ UNCHANGED mainVars
    /\ UNCHANGED gradVars

IconNext == Gradient \/ PutAlpha \/ DrawCrab \/ Composite

----------------------------------------------------------------------------
(* main, step by step *)

iconVars == <<size, pts, img, drawn>>

\* an uncaught exception: the interpreter exits, nothing of main() runs after it
Raise(e) ==
    /\ pc' = "failed"
    /\ err' = e

\* os.makedirs(public_icons, exist_ok=True)
MakedirsPublic ==
    /\ pc = "makedirs_public"
    /\ IF MakedirsRaises(dirs, public_icons, ExistOk)
       THEN /\ Raise("FileExistsError")
            /\ UNCHANGED <<dirs, log>>
       ELSE /\ dirs' = makedirs(dirs, public_icons)
            /\ log' = Append(log, Event("makedirs", PathStr(public_icons)))
            /\ pc' = "makedirs_dist"
            /\ err' = err
    /\ UNCHANGED <<run, job, files, out, start>>
    /\ UNCHANGED iconVars
    /\ UNCHANGED gradVars

\* os.makedirs(dist_icons, exist_ok=True)
MakedirsDist ==
    /\ pc = "makedirs_dist"
    /\ IF MakedirsRaises(dirs, dist_icons, ExistOk)
       THEN /\ Raise("FileExistsError")
            /\ UNCHANGED <<dirs, log>>
       ELSE /\ dirs' = makedirs(dirs, dist_icons)
            /\ log' = Append(log, Event("makedirs", PathStr(dist_icons)))
            /\ pc' = "create_icon"
            /\ err' = err
    /\ UNCHANGED <<run, job, files, out, start>>
    /\ UNCHANGED iconVars
    /\ UNCHANGED gradVars

\* icon = create_icon(size) for the next size of the loop, then logo = create_icon(256)
CallCreateIcon ==
    /\ pc = "create_icon"
    /\ size' = JobSize(job)
    /\ pts' = Probes(JobSize(job))
    /\ log' = Append(log, Event("create_icon", Str(JobSize(job))))
    /\ pc' = "gradient"
    /\ UNCHANGED <<img, drawn>>
    /\ UNCHANGED mainVars
    /\ UNCHANGED gradVars

\* image.save(path): open() fails when the directory of path is missing
Save(path, next) ==
    /\ IF DirExists(dirs, Parent(path))
       THEN /\ files' = Write(files, path, img)
            /\ log' = Append(log, Event("save", PathStr(path)))
            /\ pc' = next
            /\ err' = err
       ELSE /\ Raise("FileNotFoundError")
            /\ UNCHANGED <<files, log>>
    /\ UNCHANGED <<run, job, dirs, out, start>>
    /\ UNCHANGED iconVars
    /\ UNCHANGED gradVars

\* icon.save(os.path.join(public_icons, filename)) / logo.save(.../public/logo-square.png)
SavePublic ==
    /\ pc = "save_public"
    /\ Save(PublicPath(job), "save_dist")

\* icon.save(os.path.join(dist_icons, filename)) / logo.save(.../dist/logo-square.png)
SaveDist ==
    /\ pc = "save_dist"
    /\ Save(DistPath(job), "print")

\* print(f'Created {filename} ({size}x{size})'), and on to the next image
PrintCreated ==
    /\ pc = "print"
    /\ out' = Append(out, CreatedLine(job))
    /\ log' = Append(log, Event("print", CreatedLine(job)))
    /\ job' = job + 1
    /\ pc' = IF job < NumJobs THEN "create_icon" ELSE "print_done"
    /\ UNCHANGED <<run, dirs, files, err, start>>
    /\ UNCHANGED iconVars
    /\ UNCHANGED gradVars

\* print('All icons created successfully!')
PrintDone ==
    /\ pc = "print_done"
    /\ out' = Append(out, Completion)
    /\ log' = Append(log, Event("print", Completion))
    /\ pc' = "done"
    /\ UNCHANGED <<run, job, dirs, files, err, start>>
    /\ UNCHANGED iconVars
    /\ UNCHANGED gradVars

Running == pc \notin {"done", "failed"}

\* the file a failing step may leave behind: a save that fails while writing
\* leaves a truncated file at its path, every other failure leaves the tree alone
FailureLeaves ==
    {files} \cup
    (IF pc = "save_public" /\ DirExists(dirs, Parent(PublicPath(job)))
     THEN {Write(files, PublicPath(job), Truncated)} ELSE {}) \cup
    (IF pc = "save_dist" /\ DirExists(dirs, Parent(DistPath(job)))
     THEN {Write(files, DistPath(job), Truncated)} ELSE {})

\* a save whose exception is caught and ignored: the script goes on
FailSwallowed ==
    /\ pc \in {"save_public", "save_dist"}
    /\ pc' = (IF pc = "save_public" THEN "save_dist" ELSE "print")
    /\ UNCHANGED <<run, job, dirs, files, out, log, err, start>>
    /\ UNCHANGED iconVars
    /\ UNCHANGED gradVars

\* any call may raise (permissions, disk, memory): main() catches nothing
Fail ==
    /\ Running
    /\ Raise("OSError")
    /\ files' \in FailureLeaves
    /\ UNCHANGED <<run, job, dirs, out, log, start>>
    /\ UNCHANGED iconVars
    /\ UNCHANGED gradVars

\* the script is run again on the tree the first run left
Rerun ==
    /\ pc = "done"
    /\ run = 1
    /\ run' = 2
    /\ start' = [dirs |-> dirs, files |-> files]
    /\ pc' = "makedirs_public"
    /\ job' = 1
    /\ out' = <<>>
    /\ log' = <<>>
    /\ size' = 0
    /\ pts' = {}
    /\ img' = NoImage
    /\ drawn' = <<>>
    /\ UNCHANGED <<dirs, files, err>>
    /\ UNCHANGED gradVars

----------------------------------------------------------------------------
(* The script as a whole *)

OutputDirs == {<<"public">>, <<"public", "icons">>, <<"dist">>, <<"dist", "icons">>}

\* trees the script may find: any of the output directories (with their
\* parents), holding nothing or files of an earlier build
InitDirs == {d \in SUBSET OutputDirs : \A q \in d : Prefixes(q) \subseteq d}
OldFiles == {<<"public", "icons", "icon16.png">>, <<"dist", "old.png">>}
InitFiles(d) == {[q \in Q |-> Stale] : Q \in SUBSET {q \in OldFiles : Parent(q) \in d}}

GradIdle ==
    /\ gsize = 0
    /\ gc1 = BLACK
    /\ gc2 = BLACK
    /\ grows = <<>>

Init ==
    /\ pc = "makedirs_public"
    /\ run = 1
    /\ job = 1
    /\ size = 0
    /\ pts = {}
    /\ img = NoImage
    /\ drawn = <<>>
    /\ dirs \in InitDirs
    /\ files \in InitFiles(dirs)
    /\ out = <<>>
    /\ log = <<>>
    /\ err = "none"
    /\ start = [dirs |-> dirs, files |-> files]
    /\ GradIdle

Next ==
    \/ MakedirsPublic
    \/ MakedirsDist
    \/ CallCreateIcon
    \/ IconNext
    \/ SavePublic
    \/ SaveDist
    \/ PrintCreated
    \/ PrintDone
    \/ Fail
    \/ Rerun

Spec == Init /\ [][Next]_vars

----------------------------------------------------------------------------
(* create_icon on its own *)

MainIdle ==
    /\ run = 1
    /\ job = 1
    /\ dirs = {}
    /\ files = <<>>
    /\ out = <<>>
    /\ err = "none"
    /\ start = [dirs |-> {}, files |-> <<>>]

Pixels(n) == {<<x, y>> : x \in 0..(n - 1), y \in 0..(n - 1)}

\* create_icon(N) at a supported size, followed at any one pixel of the image
IconInit ==
    /\ pc = "gradient"
    /\ size \in SupportedSizes
    /\ \E p \in Pixels(size) : pts = {p}
    /\ img = NoImage
    /\ drawn = <<>>
    /\ log = <<>>
    /\ MainIdle
    /\ GradIdle

SpecIcon == IconInit /\ [][IconNext]_vars

\* create_icon(size) at any size up to MaxSize and the supported ones, followed at the probes
DrawInit ==
    /\ pc = "gradient"
    /\ size \in (1..MaxSize) \cup SupportedSizes
    /\ pts = Probes(size)
    /\ img = NoImage
    /\ drawn = <<>>
    /\ log = <<>>
    /\ MainIdle
    /\ GradIdle

SpecDraw == DrawInit /\ [][IconNext]_vars

----------------------------------------------------------------------------
(* create_gradient on its own, row by row *)

Palette == {BLUE_LIGHT, BLUE_DARK, WHITE, BLACK}

GradInit ==
    /\ pc = "create_gradient"
    /\ gsize \in 1..MaxGradSize
    /\ gc1 \in Palette
    /\ gc2 \in Palette
    /\ grows = <<>>
    /\ size = 0
    /\ pts = {}
    /\ img = NoImage
    /\ drawn = <<>>
    /\ log = <<>>
    /\ MainIdle

\* one iteration of the loop over range(size): row y is painted
PaintRow ==
    /\ pc = "create_gradient"
    /\ Len(grows) < gsize
    /\ grows' = Append(grows, GradientRow(gsize, gc1, gc2, Len(grows)))
    /\ UNCHANGED <<gsize, gc1, gc2>>
    /\ UNCHANGED <<pc, log>>
    /\ UNCHANGED iconVars
    /\ UNCHANGED mainVars

SpecGrad == GradInit /\ [][PaintRow]_vars

----------------------------------------------------------------------------
(* Properties *)

Saves == SelectSeq(log, LAMBDA e : e[1] = "save")
SavedPaths == {Saves[i][2] : i \in 1..Len(Saves)}
FilePaths == {PathStr(q) : q \in DOMAIN files}
CreatedLines == SelectSeq(out, LAMBDA line : line # Completion)

ExpectedFiles ==
    { "public/icons/icon16.png", "public/icons/icon48.png", "public/icons/icon128.png",
      "dist/icons/icon16.png", "dist/icons/icon48.png", "dist/icons/icon128.png",
      "public/logo-square.png", "dist/logo-square.png" }

\* C1: a complete run of main() writes the 8 files icon16/48/128.png in
\* public/icons and dist/icons and logo-square.png in public and dist, and
\* no others; started from empty output trees, these 8 are all the files
\* there are afterwards.
C1_EightFiles ==
    pc = "done" =>
        /\ SavedPaths = ExpectedFiles
        /\ Cardinality(SavedPaths) = 8
        /\ DOMAIN start.files = {} /\ run = 1 => FilePaths = ExpectedFiles

C1_Witness ==
    /\ pc = "done"
    /\ run = 1
    /\ DOMAIN start.files = {}
    /\ Cardinality(DOMAIN files) = 8

\* C2: for every supported size, every pixel of the image create_icon
\* returns has alpha 255 inside the rounded-rectangle mask and alpha 0
\* outside it, the top corners included, after the highlight is composited.
C2_OpaqueExceptClipped ==
    (pc = "save_public" /\ size \in SupportedSizes) =>
        \A p \in pts : img.px[p][4] = (IF Covers(MaskShape(size), p) THEN 255 ELSE 0)

ExpectedDims ==
    { <<<<"public", "icons", "icon16.png">>, 16>>, <<<<"dist", "icons", "icon16.png">>, 16>>,
      <<<<"public", "icons", "icon48.png">>, 48>>, <<<<"dist", "icons", "icon48.png">>, 48>>,
      <<<<"public", "icons", "icon128.png">>, 128>>, <<<<"dist", "icons", "icon128.png">>, 128>>,
      <<<<"public", "logo-square.png">>, 256>>, <<<<"dist", "logo-square.png">>, 256>> }

\* C3: after a complete run each of public/icons, dist/icons, public and
\* dist exists, whether or not it did before, and iconN.png holds an N x N
\* image (N = 16, 48, 128) and logo-square.png a 256 x 256 one, in both trees.
C3_DirsAndDimensions ==
    pc = "done" =>
        /\ OutputDirs \subseteq dirs
        /\ \A e \in ExpectedDims :
              /\ e[1] \in DOMAIN files
              /\ files[e[1]].w = e[2]
              /\ files[e[1]].h = e[2]

C3_Witness ==
    /\ pc = "done"
    /\ run = 1
    /\ start.dirs = {}
    /\ files[<<"dist", "logo-square.png">>].w = 256

Within1(a, b) == a - b \in {-1, 0, 1}

\* C4: create_gradient paints row 0 exactly color1, the bottom row equal to
\* color2 up to integer rounding, every channel monotone in y (never moving
\* away from color2) and within 0..255.
C4_GradientEndpoints ==
    Len(grows) = gsize /\ gsize >= 1 =>
        \A c \in 1..3 :
            /\ grows[1][c] = gc1[c]
            /\ Within1(grows[gsize][c], gc2[c])
            /\ \A y \in 1..(gsize - 1) :
                  Abs(grows[y + 1][c] - gc2[c]) <= Abs(grows[y][c] - gc2[c])
            /\ \A y \in 1..gsize : grows[y][c] \in 0..255

\* C5: a second run of main() on the tree the first run left does not fail
\* on the directories that now exist, and leaves the same set of files with
\* the same contents, pixel for pixel, and the same directories.
C5_Idempotent ==
    /\ err # "FileExistsError"
    /\ (run = 2 /\ pc = "done") => (files = start.files /\ dirs = start.dirs)

C5_Witness ==
    /\ run = 2
    /\ pc = "done"
    /\ Cardinality(DOMAIN files) >= 8

\* C6 as claimed: one printed "Created" line for each file the run writes.
C6_LinePerFile ==
    pc = "done" => Len(CreatedLines) = Len(Saves)

ExpectedLines ==
    << "Created icon16.png (16x16)", "Created icon48.png (48x48)",
       "Created icon128.png (128x128)", "Created logo-square.png (256x256)" >>

\* C6 amended: main() prints one "Created" line per image (per file name),
\* after that image's two copies are saved, 4 lines for the 8 files, and
\* after all of them the completion message as its last output.
C6_LinePerImage ==
    /\ Len(CreatedLines) <= Len(ExpectedLines)
    /\ CreatedLines = SubSeq(ExpectedLines, 1, Len(CreatedLines))
    /\ 2 * Len(CreatedLines) <= Len(Saves)
    /\ Len(Saves) <= 2 * Len(CreatedLines) + 2
    /\ \A i \in 1..Len(out) : out[i] = Completion => (i = Len(out) /\ i = 5 /\ pc = "done")
    /\ pc = "done" => (Len(out) = 5 /\ out[5] = Completion /\ Len(Saves) = 8)

C6_Witness ==
    /\ pc = "done"
    /\ Len(CreatedLines) = 4
    /\ Len(Saves) = 8

\* C7: a failing step ends the run there: nothing is written or printed
\* afterwards, the files saved before the failure stay as they are, the
\* completion message is not printed, and it is printed only in runs in
\* which all 8 saves succeeded.
C7_Inv ==
    /\ pc = "failed" => (err # "none" /\ \A i \in 1..Len(out) : out[i] # Completion)
    /\ (\E i \in 1..Len(out) : out[i] = Completion) =>
          (err = "none" /\ SavedPaths = ExpectedFiles /\ Len(Saves) = 8)

C7_Step ==
    /\ pc = "failed" => (pc' = "failed" /\ files' = files /\ out' = out /\ log' = log)
    /\ pc' = "failed" =>
          /\ out' = out
          /\ log' = log
          /\ dirs' = dirs
          /\ \A q \in DOMAIN files : PathStr(q) \in SavedPaths =>
                (q \in DOMAIN files' /\ files'[q] = files[q])
    /\ (pc \in {"save_public", "save_dist"} /\ Len(Saves') = Len(Saves)) => pc' = "failed"

C7_FailureTerminates == []C7_Inv /\ [][C7_Step]_vars

C7_Witness ==
    /\ pc = "failed"
    /\ Len(Saves) = 3
    /\ Cardinality(DOMAIN files) >= 3

IconSteps == {"create_gradient", "putalpha", "draw_crab", "alpha_composite"}

\* the call a call follows, inside create_icon, as the code has it
Before(kind) ==
    CASE kind = "create_gradient" -> "create_icon"
      [] kind = "putalpha" -> "create_gradient"
      [] kind = "draw_crab" -> "putalpha"
      [] kind = "alpha_composite" -> "draw_crab"

\* the same, as claimed: the crab before the mask
BeforeClaimed(kind) ==
    CASE kind = "create_gradient" -> "create_icon"
      [] kind = "draw_crab" -> "create_gradient"
      [] kind = "putalpha" -> "draw_crab"
      [] kind = "alpha_composite" -> "putalpha"

\* every call of the log follows the call Pred gives for it, and an image is
\* saved only once all four steps have run on it
InOrder(Pred(_)) ==
    \A i \in 1..Len(log) :
        /\ log[i][1] \in IconSteps => (i > 1 /\ log[i - 1][1] = Pred(log[i][1]))
        /\ log[i][1] = "save" =>
              /\ i > 5
              /\ log[i - 1][1] \in {"alpha_composite", "save"}
              /\ log[i - 1][1] = "save" => log[i - 2][1] = "alpha_composite"

\* C8 as claimed: gradient, then crab, then mask, then highlight, then save.
C8_CrabBeforeMask == InOrder(BeforeClaimed)

\* C8 amended: for every size create_icon computes the gradient, then
\* applies the rounded-rectangle mask, then draws the crab, then composites
\* the highlight; the image is saved only after all four steps.
C8_MaskBeforeCrab == InOrder(Before)

C8_Witness ==
    /\ pc = "save_dist"
    /\ job = 2
    /\ Len(Saves) = 3

MainCalls == SelectSeq(log, LAMBDA e : e[1] \in {"makedirs", "create_icon", "save", "print"})

ExpectedCalls ==
    << <<"makedirs", "public/icons">>, <<"makedirs", "dist/icons">>,
       <<"create_icon", "16">>, <<"save", "public/icons/icon16.png">>,
       <<"save", "dist/icons/icon16.png">>, <<"print", "Created icon16.png (16x16)">>,
       <<"create_icon", "48">>, <<"save", "public/icons/icon48.png">>,
       <<"save", "dist/icons/icon48.png">>, <<"print", "Created icon48.png (48x48)">>,
       <<"create_icon", "128">>, <<"save", "public/icons/icon128.png">>,
       <<"save", "dist/icons/icon128.png">>, <<"print", "Created icon128.png (128x128)">>,
       <<"create_icon", "256">>, <<"save", "public/logo-square.png">>,
       <<"save", "dist/logo-square.png">>, <<"print", "Created logo-square.png (256x256)">>,
       <<"print", "All icons created successfully!">> >>

\* C9: main() makes both directories, then handles 16, 48, 128 and 256 in
\* that order, each to completion: one create_icon, the save to the public
\* tree, the save to the dist tree, the "Created" line, and only then the
\* next size.
C9_SizesInOrder ==
    /\ Len(MainCalls) <= Len(ExpectedCalls)
    /\ MainCalls = SubSeq(ExpectedCalls, 1, Len(MainCalls))
    /\ pc = "done" => Len(MainCalls) = Len(ExpectedCalls)

C9_Witness ==
    /\ pc = "done"
    /\ Len(MainCalls) = 19

\* k * size / 128 truncated to an integer, stated without division
Trunc(k) == CHOOSE d \in 0..size : RefSize * d <= k * size /\ k * size < RefSize * (d + 1)
Half(n) == CHOOSE d \in 0..n : 2 * d <= n /\ n < 2 * (d + 1)

\* C10: the mask is the rounded rectangle (0,0)..(size-1,size-1) of radius
\* floor(size / 5); the crab is laid out around (size // 2, size // 2) with
\* every dimension the 128-pixel reference value times size / 128,
\* truncated; 3 legs are drawn on each side, of width at least 1.  At size
\* 128: a 128 x 128 image, radius 25, centre (64, 64).
C10_Geometry ==
    pc \in {"highlight", "save_public"} =>
        LET mask == drawn[1]
            body == drawn[2].box
            stalkL == drawn[3].box
            eyeL == drawn[4].box
            stalkR == drawn[5].box
            eyeR == drawn[6].box
            clawL == drawn[7].box
            clawR == drawn[10].box
            cx == Half(size)
            cy == Half(size)
        IN  /\ Len(drawn) = 18
            /\ img.w = size /\ img.h = size
            /\ mask.kind = "rounded_rectangle"
            /\ mask.box = <<0, 0, size - 1, size - 1>>
            /\ 5 * mask.radius <= size /\ size < 5 * (mask.radius + 1)
            /\ size = 128 => (mask.radius = 25 /\ cx = 64 /\ cy = 64
                               /\ body = <<24, 41, 104, 97>>)
            /\ body = <<cx - Trunc(40), cy - Trunc(28) + Trunc(5),
                        cx + Trunc(40), cy + Trunc(28) + Trunc(5)>>
            /\ stalkL = <<cx - Trunc(18) - Half(Trunc(3)), cy - Trunc(15),
                          cx - Trunc(18) + Half(Trunc(3)), cy - Trunc(5)>>
            /\ stalkR = <<cx + Trunc(18) - Half(Trunc(3)), cy - Trunc(15),
                          cx + Trunc(18) + Half(Trunc(3)), cy - Trunc(5)>>
            /\ eyeL = <<cx - Trunc(18) - Trunc(6), cy - Trunc(15) - Trunc(6),
                        cx - Trunc(18) + Trunc(6), cy - Trunc(15) + Trunc(6)>>
            /\ eyeR = <<cx + Trunc(18) - Trunc(6), cy - Trunc(15) - Trunc(6),
                        cx + Trunc(18) + Trunc(6), cy - Trunc(15) + Trunc(6)>>
            /\ clawL = <<cx - Trunc(45) - Trunc(20), cy - Trunc(5) - Half(Trunc(15)),
                         cx - Trunc(45) + Half(Trunc(20)), cy - Trunc(5) + Half(Trunc(15))>>
            /\ clawR = <<cx + Trunc(45) - Half(Trunc(20)), cy - Trunc(5) - Half(Trunc(15)),
                         cx + Trunc(45) + Trunc(20), cy - Trunc(5) + Half(Trunc(15))>>
            /\ \A i \in {8, 9} :
                  /\ drawn[i].kind = "polygon"
                  /\ drawn[i].c = <<cx - Trunc(45) - Trunc(20), cy - Trunc(5)>>
                  /\ drawn[i].b[1] = cx - Trunc(45) - Trunc(20) - Trunc(10)
            /\ \A i \in {11, 12} :
                  /\ drawn[i].kind = "polygon"
                  /\ drawn[i].c = <<cx + Trunc(45) + Trunc(20), cy - Trunc(5)>>
                  /\ drawn[i].b[1] = cx + Trunc(45) + Trunc(20) + Trunc(10)
            /\ <<drawn[8].a[2], drawn[8].b[2]>> = <<cy - 2 * Trunc(5), cy - Trunc(5) - Trunc(10)>>
            /\ <<drawn[9].a[2], drawn[9].b[2]>> = <<cy, cy - Trunc(5) + Trunc(10)>>
            /\ Cardinality({i \in 1..Len(drawn) : drawn[i].kind = "line"}) = 6
            /\ \A i \in 0..2 :
                  LET left == drawn[13 + 2 * i]
                      right == drawn[14 + 2 * i]
                      y == cy + Trunc(10) + i * Trunc(10)
                  IN  /\ left.kind = "line" /\ right.kind = "line"
                      /\ left.a = <<cx - Trunc(35), y>>
                      /\ left.b = <<cx - Trunc(35) - Trunc(20), y + Half(Trunc(20))>>
                      /\ right.a = <<cx + Trunc(35), y>>
                      /\ right.b = <<cx + Trunc(35) + Trunc(20), y + Half(Trunc(20))>>
                      /\ left.width >= 1 /\ right.width >= 1
                      /\ left.width = Max(1, Trunc(4)) /\ right.width = Max(1, Trunc(4))

C10_Witness ==
    /\ pc = "save_public"
    /\ size = 128
    /\ drawn[1].radius = 25
    /\ drawn[2].box = <<24, 41, 104, 97>>

====
